---- MODULE Spec2Model ----
(***************************************************************************)
(* LocationWeather (src/LocationWeather.ts): a static class that resolves  *)
(* weather records for a batch of locations from a remote API, with a      *)
(* process-wide in-memory cache (_cache) and a durable copy (data.json).   *)
(*                                                                         *)
(* Time is counted in ticks of half an hour.  A JavaScript object is a     *)
(* function from its (string) property keys to values.  One activation of  *)
(* getWeatherData is a record of call, indexed by a caller id; its steps   *)
(* are the maximal synchronous sections between awaits.                    *)
(***************************************************************************)
EXTENDS Integers, Sequences, FiniteSets, TLC

\* ------------------------------------------------------------- bounds
\* Longest array drawn element by element (longer ones are uniform fills).
MaxLen == 2
\* Last clock value.
MaxTime == 2

\* ---------------------------------------------------- program constants
\* locations.length > 10
MaxEntries == 10
\* time.setHours(time.getHours() + 1), in ticks
Hour == 2

\* ------------------------------------------------------------ values
\* A location is a string or a number; Obj stands for any other element
\* ([] in the tests).  The field name is the typeof.
Str(s) == [string |-> s]
Num(n) == [number |-> n]
Obj == [object |-> "[]"]

typeof(x) == CHOOSE t \in DOMAIN x : TRUE

\* A city, a postal code, and the postal code spelt as a string.
Locs == {Str("Lagos"), Num(10005)}
Alias == Str("10005")

Digit == <<"0", "1", "2", "3", "4", "5", "6", "7", "8", "9">>

RECURSIVE NumberToString(_)
\* Number.prototype.toString for a non-negative integer
NumberToString(n) ==
  IF n < 10 THEN Digit[n + 1]
  ELSE NumberToString(n \div 10) \o Digit[(n % 10) + 1]

\* Mutant: keys that keep the type of the element, as a Map's keys do.
toStringTyped(x) ==
  IF typeof(x) = "number" THEN "#" \o NumberToString(x.number)
  ELSE IF typeof(x) = "string" THEN x.string
  ELSE ""

\* ToPropertyKey / template-literal conversion of an element: obj[x], { [x]: v }, `${x}`
toString(x) ==
  IF typeof(x) = "number" THEN NumberToString(x.number)
  ELSE IF typeof(x) = "string" THEN x.string
  ELSE ""

EmptyObj == [k \in {} |-> 0]

\* { ...a, ...b } and Object.assign({}, a, b): b's properties win
Spread(a, b) ==
  [k \in (DOMAIN a) \cup (DOMAIN b) |-> IF k \in DOMAIN b THEN b[k] ELSE a[k]]

Range(s) == {s[i] : i \in DOMAIN s}

\* The static field _cache: unset until the first successful write.
Undefined == [set |-> FALSE, obj |-> EmptyObj]
Defined(o) == [set |-> TRUE, obj |-> o]

\* { ...LocationWeather._cache }: spreading undefined gives {}
SpreadCache(cache) == IF cache.set THEN cache.obj ELSE EmptyObj

\* JSON.stringify of a Cache object: the text's members, key and record
Stringify(o) == {<<k, o[k]>> : k \in DOMAIN o}

\* data.json: absent, holding a complete text, or cut short by a failed write
Absent == [state |-> "absent", content |-> {}]
Written(text) == [state |-> "written", content |-> text]
Partial == [state |-> "partial", content |-> {}]

\* errors: a type and a message
NoError == [type |-> "none", message |-> ""]
Throw(t, m) == [type |-> t, message |-> m]

AuthMessage == "please supply a valid api key"
NotArrayMessage == "data set should be an array containing locations and postal codes"
EmptyMessage == "data set should not be empty"
TooManyMessage == "data set should not contain more than 10 entries"
ElementMessage == "each location should be a city(string) or zipcode(integer)"
NoDataMessage(location) == "no weather data for " \o toString(location)
NetworkMessage == "Network Error"
WriteMessage == "ENOSPC: no space left on device, write"

\* The static field apiKey (process.env.API_KEY): undefined, empty or a key.
NoKey == [defined |-> FALSE, value |-> ""]
Key(v) == [defined |-> TRUE, value |-> v]
ApiKeys == {NoKey, Key(""), Key("k")}

\* !LocationWeather.apiKey
Falsy(key) == ~key.defined \/ key.value = ""

\* An argument of getWeatherData: an array, or something else ('' in the tests).
NotArray == [isArray |-> FALSE, elems |-> <<>>]
Array(s) == [isArray |-> TRUE, elems |-> s]

\* ------------------------------------------------- the class's functions

\* getWeatherData, lines 66-68
CheckApiKey(key) ==
  IF Falsy(key) THEN Throw("ReferenceError", AuthMessage) ELSE NoError

\* Mutant: the element check placed before the size checks.
_validateLocationsElementsFirst(locations) ==
  IF ~locations.isArray THEN Throw("TypeError", NotArrayMessage)
  ELSE IF ~(\A i \in DOMAIN locations.elems :
              typeof(locations.elems[i]) \in {"string", "number"})
    THEN Throw("TypeError", ElementMessage)
  ELSE IF Len(locations.elems) = 0 THEN Throw("Error", EmptyMessage)
  ELSE IF Len(locations.elems) > MaxEntries THEN Throw("Error", TooManyMessage)
  ELSE NoError

_validateLocations(locations) ==
  IF ~locations.isArray THEN Throw("TypeError", NotArrayMessage)
  ELSE IF Len(locations.elems) = 0 THEN Throw("Error", EmptyMessage)
  ELSE IF Len(locations.elems) > MaxEntries THEN Throw("Error", TooManyMessage)
  ELSE IF ~(\A i \in DOMAIN locations.elems :
              typeof(locations.elems[i]) \in {"string", "number"})
    THEN Throw("TypeError", ElementMessage)
  ELSE NoError

\* Mutant: the locations validated before the key is looked at.
GuardValidatesFirst(key, locations) ==
  IF _validateLocations(locations) # NoError THEN _validateLocations(locations)
  ELSE CheckApiKey(key)

\* getWeatherData, lines 66-70: the first throw decides
Guard(key, locations) ==
  IF CheckApiKey(key) # NoError THEN CheckApiKey(key)
  ELSE _validateLocations(locations)

\* true means: fetch the location
_locationCacheExpired(cache, location, t) ==
  IF ~cache.set THEN TRUE
  ELSE IF toString(location) \notin DOMAIN cache.obj THEN TRUE
  ELSE cache.obj[toString(location)].ob_time + Hour > t

RECURSIVE FilterFrom(_, _, _, _, _)
FilterFrom(flag, elems, cache, clk, i) ==
  IF i > Len(elems) THEN <<>>
  ELSE (IF _locationCacheExpired(cache, elems[i], clk[i]) = flag
          THEN <<elems[i]>> ELSE <<>>)
       \o FilterFrom(flag, elems, cache, clk, i + 1)

\* clk[i] is what new Date() reads when the i-th element is tested
_filterCachedLocations(flag, elems, cache, clk) ==
  FilterFrom(flag, elems, cache, clk, 1)

\* lodash pick(_cache, locations); pick(undefined, ...) is {}
_getWeatherByLocationsFromCache(cache, elems) ==
  LET o == SpreadCache(cache)
  IN [k \in {toString(elems[i]) : i \in DOMAIN elems} \cap DOMAIN o |-> o[k]]

\* ----------------------------------------------------------- upstream
\* What one GET can come to: a transport failure, or a response whose body is
\* no JSON, JSON with an empty data array, or JSON with one record.
Raw(t) == [ob_time |-> t, temp |-> 0]
NetworkError == [kind |-> "neterr", data |-> <<>>]
Malformed == [kind |-> "malformed", data |-> <<>>]
Body(d) == [kind |-> "json", data |-> d]
\* The record's ob_time is the clock's reading or one hour before it.
Outcomes(t) ==
  {NetworkError, Malformed, Body(<<>>)}
  \cup {Body(<<Raw(u)>>) : u \in {t, t - Hour} \cap (0..t)}

Resolved(v) == [ok |-> TRUE, value |-> v, error |-> NoError]
Rejected(e) == [ok |-> FALSE, value |-> EmptyObj, error |-> e]

\* Mutant: the transform not bound to its location, so that `this` is undefined.
_transformWeatherDataUnbound(location, apiData) ==
  IF apiData.kind # "json" \/ apiData.data = <<>>
    THEN Rejected(Throw("Error", "no weather data for undefined"))
  ELSE Resolved("undefined" :> [ob_time |-> apiData.data[1].ob_time])

_transformWeatherData(location, apiData) ==
  IF apiData.kind # "json" \/ apiData.data = <<>>
    THEN Rejected(Throw("Error", NoDataMessage(location)))
  ELSE Resolved(toString(location) :> [ob_time |-> apiData.data[1].ob_time])

_request(location, outcome) ==
  IF outcome.kind = "neterr" THEN Rejected(Throw("Error", NetworkMessage))
  ELSE _transformWeatherData(location, outcome)

RECURSIVE AssignAll(_, _)
AssignAll(o, objs) ==
  IF objs = <<>> THEN o ELSE AssignAll(Spread(o, Head(objs)), Tail(objs))

\* Object.assign({}, ...weatherData)
_normalizeApiData(weatherData) == AssignAll(EmptyObj, weatherData)

\* axios.all (Promise.all) over the n requests of a batch, given those settled
\* so far: rejected with the first rejection, fulfilled once all are fulfilled.
Pending == [state |-> "pending", values |-> <<>>, error |-> NoError]
\* Mutant: a rejected request counts as fulfilled with nothing.
allSettled(settled, n) ==
  IF DOMAIN settled = 1..n
    THEN [state |-> "fulfilled", values |-> [i \in 1..n |-> settled[i].value],
          error |-> NoError]
  ELSE Pending

all(settled, n) ==
  IF \E i \in DOMAIN settled : ~settled[i].ok
    THEN [state |-> "rejected", values |-> <<>>,
          error |-> settled[CHOOSE i \in DOMAIN settled : ~settled[i].ok].error]
  ELSE IF DOMAIN settled = 1..n
    THEN [state |-> "fulfilled", values |-> [i \in 1..n |-> settled[i].value],
          error |-> NoError]
  ELSE Pending

\* Mutant: the values handed on in the order the requests settled.
ValuesAsSettled(values, order) == [j \in DOMAIN values |-> values[order[j]]]

\* The array axios.all fulfils with keeps the order of the promises it was
\* given, whatever the order they settled in.
ValuesInOrder(values, order) == values

\* _caccheExists: stat's error is caught and turned into true
_caccheExists(err) == IF err THEN TRUE ELSE TRUE

\* _writeToCache, line 268
Flag(exists) == IF exists THEN "w" ELSE "wx"

\* Mutant: the spread the other way round, the cached records win.
ContentCacheWins(cache, data) == Stringify(Spread(data, SpreadCache(cache)))

\* _writeToCache, line 266
Content(cache, data) == Stringify(Spread(SpreadCache(cache), data))

\* Mutant: the cache assigned before the write is awaited.
CacheAssignedFirst(cache, data, written) == Defined(data)

\* Mutant: the batch merged into the cache, the records already cached winning.
CacheMergedOldWins(cache, data, written) ==
  IF written THEN Defined(Spread(data, SpreadCache(cache))) ELSE cache

\* _writeToCache, lines 269-270: the assignment follows the awaited write
CacheAfterWrite(cache, data, written) == IF written THEN Defined(data) ELSE cache

\* Mutant: the caught error thrown on as it is.
RethrowAsIs(error) == error

\* getWeatherData, lines 76-78
Rethrow(error) == Throw("Error", error.message)

\* Mutant: the requests sent before the guard is evaluated.
IssueRequestsUnguarded(guard, fromApi) == fromApi

\* getWeatherData, lines 66-73: a throw of the guard leaves line 73 unreached
IssueRequests(guard, fromApi) == IF guard # NoError THEN <<>> ELSE fromApi

\* getWeatherData, line 75
Combine(apiData, cache, fromCache) ==
  Spread(apiData, _getWeatherByLocationsFromCache(cache, fromCache))

\* --------------------------------------------------------------- state
VARIABLES
  apiKey,    \* LocationWeather.apiKey
  _cache,    \* LocationWeather._cache
  dataJson,  \* the file data.json
  now,       \* what new Date() reads
  call,      \* the activations of getWeatherData, by caller
  started    \* whether getWeatherData has been called in this process

vars == <<apiKey, _cache, dataJson, now, call, started>>

CallIds == {"a", "b"}

NoResult == [returned |-> FALSE, value |-> EmptyObj]
Returned(v) == [returned |-> TRUE, value |-> v]

\* pc: idle, fetching (awaiting axios.all), stat (awaiting _caccheExists),
\* writing (awaiting writeFile), done (settled, the caller has not resumed yet).
\* requested: the locations a GET was sent for; outcomes: what came back for each;
\* settled: the promises of _request settled so far, order: the order they
\* settled in (kept until axios.all has settled and its then has run); written: writeFile's outcome.
\* apiKey, cache0 and durable0 record the key, the cache and the file the call
\* started with; first tells the first call of the process.
IdleCall ==
  [pc |-> "idle", apiKey |-> NoKey, locations |-> NotArray,
   fromApi |-> <<>>, fromCache |-> <<>>, requested |-> <<>>,
   outcomes |-> EmptyObj, settled |-> EmptyObj, order |-> <<>>,
   apiData |-> EmptyObj, content |-> {}, flag |-> "", written |-> "no",
   cache0 |-> Undefined, durable0 |-> Absent, first |-> FALSE,
   result |-> NoResult, error |-> NoError]

RECURSIVE Fill(_, _)
Fill(e, n) == IF n = 0 THEN <<>> ELSE <<e>> \o Fill(e, n - 1)

\* The arguments tried: a non-array; every array of at most MaxLen locations; the
\* string spelling of the postal code, alone and next to the number; arrays of at
\* most MaxLen elements with one bad element at any place; uniform arrays at and
\* just over the size limit.
Inputs ==
  {NotArray}
  \cup {Array(s) : s \in UNION {[1..n -> Locs] : n \in 0..MaxLen}}
  \cup {Array(<<Alias>>), Array(<<Num(10005), Alias>>), Array(<<Alias, Num(10005)>>)}
  \cup UNION {{Array([i \in 1..n |-> IF i = p THEN Obj ELSE Str("Lagos")]) :
                  p \in 1..n} : n \in 1..MaxLen}
  \cup {Array(Fill(e, MaxEntries + 1)) : e \in {Obj, Str("Lagos")}}
  \cup {Array(Fill(Obj, MaxEntries))}

\* The clocks one synchronous section of 2n Date reads can see: the clock may
\* advance once, before read k + 1.
Clocks(n) ==
  {[i \in 1..(2 * n) |-> IF i <= k THEN now ELSE now + 1] :
     k \in (IF now < MaxTime THEN 0..(2 * n) ELSE {2 * n})}

\* What an earlier process may have left in data.json: nothing, or a text with
\* a record of Lagos.
Leftovers == {Absent, Written(Stringify("Lagos" :> [ob_time |-> 0]))}

\* Mutant: the cache loaded from data.json when the class is loaded.
InitialCacheReadBack(blob) ==
  IF blob.state = "written"
    THEN Defined([k \in {m[1] : m \in blob.content} |->
                    (CHOOSE m \in blob.content : m[1] = k)[2]])
    ELSE Undefined

\* The static field is declared without an initialiser and data.json is never
\* read: the cache of a new process is unset, whatever the file holds.
InitialCache(blob) == Undefined

Init ==
  /\ apiKey \in ApiKeys
  /\ dataJson \in Leftovers
  /\ _cache = InitialCache(dataJson)
  /\ now = 0
  /\ call = [c \in CallIds |-> IdleCall]
  /\ started = FALSE

\* ------------------------------------------------------------- actions

\* LocationWeather.apiKey = key, by a caller between its calls
SetApiKey(key) ==
  /\ \A c \in CallIds : call[c].pc = "idle"
  /\ key # apiKey
  /\ apiKey' = key
  /\ UNCHANGED <<_cache, dataJson, now, call, started>>

Tick ==
  /\ now < MaxTime
  /\ now' = now + 1
  /\ UNCHANGED <<apiKey, _cache, dataJson, call, started>>

\* getWeatherData up to its first await (or its return, when nothing is fetched)
GetWeatherData(c, locations) ==
  /\ call[c].pc = "idle"
  /\ LET guard == Guard(apiKey, locations)
         n == Len(locations.elems)
         start == [IdleCall EXCEPT !.apiKey = apiKey, !.locations = locations,
                                   !.cache0 = _cache, !.durable0 = dataJson,
                                   !.first = ~started]
     IN /\ started' = TRUE
        /\ IF guard # NoError
          THEN /\ call' = [call EXCEPT ![c] =
                             [start EXCEPT !.pc = "done", !.error = Rethrow(guard),
                                           !.requested = IssueRequests(guard,
                                              _filterCachedLocations(TRUE, locations.elems,
                                                _cache, [i \in 1..n |-> now]))]]
               /\ UNCHANGED <<apiKey, _cache, dataJson, now>>
          ELSE \E clk \in Clocks(n) :
                 LET fromApi == _filterCachedLocations(TRUE, locations.elems, _cache,
                                                       SubSeq(clk, 1, n))
                     fromCache == _filterCachedLocations(FALSE, locations.elems, _cache,
                                                         SubSeq(clk, n + 1, 2 * n))
                     split == [start EXCEPT !.fromApi = fromApi, !.fromCache = fromCache,
                                            !.requested = IssueRequests(guard, fromApi)]
                 IN /\ now' = clk[2 * n]
                    /\ call' = [call EXCEPT ![c] =
                                  IF Len(fromApi) # 0
                                    THEN [split EXCEPT !.pc = "fetching"]
                                    ELSE [split EXCEPT !.pc = "done",
                                            !.result = Returned(Combine(EmptyObj, _cache, fromCache))]]
                    /\ UNCHANGED <<apiKey, _cache, dataJson>>

\* One request of the batch settles.  A rejection rejects axios.all and with it
\* the call; the last fulfilment runs _normalizeApiData and _writeToCache up to
\* its first await.
Response(c, i, outcome) ==
  /\ call[c].pc = "fetching"
  /\ i \in (1..Len(call[c].fromApi)) \ DOMAIN call[c].settled
  /\ LET settled == (i :> _request(call[c].fromApi[i], outcome)) @@ call[c].settled
         batch == all(settled, Len(call[c].fromApi))
         order == Append(call[c].order, i)
         data == _normalizeApiData(ValuesInOrder(batch.values, order))
         got == [call[c] EXCEPT !.settled = settled, !.order = order,
                                !.outcomes = (i :> outcome) @@ call[c].outcomes]
     IN call' = [call EXCEPT ![c] =
                  IF batch.state = "rejected"
                    THEN [got EXCEPT !.pc = "done", !.error = Rethrow(batch.error),
                                     !.order = <<>>]
                  ELSE IF batch.state = "fulfilled"
                    THEN [got EXCEPT !.pc = "stat", !.apiData = data,
                                     !.content = Content(_cache, data)]
                  ELSE got]
  /\ UNCHANGED <<apiKey, _cache, dataJson, now, started>>

\* stat(data.json) calls back, with an error or without
StatDone(c, err) ==
  /\ call[c].pc = "stat"
  /\ call' = [call EXCEPT ![c].pc = "writing", ![c].flag = Flag(_caccheExists(err)),
                           ![c].order = <<>>]
  /\ UNCHANGED <<apiKey, _cache, dataJson, now, started>>

\* writeFile calls back without an error: the rest of _writeToCache and of
\* getWeatherData runs
WriteDone(c) ==
  /\ call[c].pc = "writing"
  /\ ~(call[c].flag = "wx" /\ dataJson.state # "absent")
  /\ dataJson' = Written(call[c].content)
  /\ _cache' = CacheAfterWrite(_cache, call[c].apiData, TRUE)
  /\ call' = [call EXCEPT ![c].pc = "done", ![c].written = "ok",
                ![c].result = Returned(Combine(call[c].apiData, _cache', call[c].fromCache))]
  /\ UNCHANGED <<apiKey, now, started>>

\* writeFile calls back with an error; the file is as it was or cut short
WriteFailed(c, partial) ==
  /\ call[c].pc = "writing"
  /\ dataJson' = IF partial THEN Partial ELSE dataJson
  /\ _cache' = CacheAfterWrite(_cache, call[c].apiData, FALSE)
  /\ call' = [call EXCEPT ![c].pc = "done", ![c].written = "failed",
                ![c].error = Rethrow(Throw("Error", WriteMessage))]
  /\ UNCHANGED <<apiKey, now, started>>

\* The caller resumes with the call's result or error.
Return(c) ==
  /\ call[c].pc = "done"
  /\ call' = [call EXCEPT ![c] = IdleCall]
  /\ UNCHANGED <<apiKey, _cache, dataJson, now, started>>

\* One caller at a time: caller "a" awaits each call before the next.
Next ==
  \/ \E key \in ApiKeys : SetApiKey(key)
  \/ Tick
  \/ \E locations \in Inputs : GetWeatherData("a", locations)
  \/ \E i \in 1..MaxEntries, outcome \in Outcomes(now) : Response("a", i, outcome)
  \/ \E err \in BOOLEAN : StatDone("a", err)
  \/ WriteDone("a")
  \/ \E partial \in BOOLEAN : WriteFailed("a", partial)
  \/ Return("a")

Spec == Init /\ [][Next]_vars

\* ------------------------------------------------------------- claims
\* The call of the one caller of Spec.
A == call["a"]

Keys(elems) == {toString(elems[i]) : i \in DOMAIN elems}

\* The spec's isFresh at clock t: a record is cached and observedAt + 1 hour > t.
IsFresh(cache, location, t) ==
  /\ cache.set
  /\ toString(location) \in DOMAIN cache.obj
  /\ cache.obj[toString(location)].ob_time + Hour > t

\* C1: a second getWeatherData([L]), made while the record the first one stored
\* for L is less than an hour old, sends no request for L and returns L's record
\* from the cache.  (After a successful getWeatherData([L]) the cache is exactly
\* L's record.)
C1_Idempotence ==
  [][\A l \in Locs \cup {Alias} :
       (/\ ~Falsy(apiKey)
        /\ _cache.set /\ DOMAIN _cache.obj = {toString(l)}
        /\ IsFresh(_cache, l, now')
        /\ GetWeatherData("a", Array(<<l>>)))
       => /\ A'.requested = <<>>
          /\ A'.result = Returned(_cache.obj)]_vars

\* C2: a call that succeeds returns a mapping with an entry for every requested
\* location and no other entry.
C2_CompleteResult ==
  (A.pc = "done" /\ A.result.returned)
    => DOMAIN A.result.value = Keys(A.locations.elems)

\* C3: an accepted call serves a location from the cache, and does not fetch it,
\* when its cached record is less than an hour old; it fetches a location, and does
\* not serve it from the cache, when it has no record or one an hour old or older.
C3_FreshnessRouting ==
  [][\A locations \in Inputs :
       (Guard(apiKey, locations) = NoError /\ GetWeatherData("a", locations))
       => \A i \in DOMAIN locations.elems :
            LET l == locations.elems[i]
            IN /\ (IsFresh(_cache, l, now) /\ IsFresh(_cache, l, now'))
                    => (l \in Range(A'.fromCache) /\ l \notin Range(A'.requested))
               /\ (~IsFresh(_cache, l, now) /\ ~IsFresh(_cache, l, now'))
                    => (l \in Range(A'.requested) /\ l \notin Range(A'.fromCache))]_vars

\* C4: a call made with the api key undefined or empty fails with 'please supply
\* a valid api key', whatever its argument.
C4_CredentialFirst ==
  (A.pc # "idle" /\ Falsy(A.apiKey))
    => (A.pc = "done" /\ A.error.message = AuthMessage /\ ~A.result.returned)

\* C4 witness: the key is missing and the argument is invalid as well.
C4_Witness ==
  /\ A.pc = "done" /\ Falsy(A.apiKey)
  /\ A.locations = Array(Fill(Obj, MaxEntries + 1))
  /\ A.error.message = AuthMessage

\* The decision table of C5: the message a given argument is rejected with, ""
\* when it is accepted.
C5_Table(locations) ==
  IF ~locations.isArray THEN NotArrayMessage
  ELSE IF locations.elems = <<>> THEN EmptyMessage
  ELSE IF Len(locations.elems) >= MaxEntries + 1 THEN TooManyMessage
  ELSE IF \E e \in Range(locations.elems) : typeof(e) \notin {"string", "number"}
    THEN ElementMessage
  ELSE ""

\* C5: with a key configured, a call is rejected with the message the decision
\* table gives for its argument (not an array, empty, more than 10, bad element,
\* in this order); an accepted argument is partitioned as it was given.
C5_ValidationTable ==
  (A.pc # "idle" /\ ~Falsy(A.apiKey))
    => IF C5_Table(A.locations) # ""
         THEN A.pc = "done" /\ A.error.message = C5_Table(A.locations)
         ELSE /\ A.error.message \notin
                   {NotArrayMessage, EmptyMessage, TooManyMessage, ElementMessage}
              /\ Range(A.fromApi) \cup Range(A.fromCache) = Range(A.locations.elems)

\* C5 witness: eleven invalid elements are rejected for their number.
C5_Witness ==
  /\ A.pc = "done" /\ ~Falsy(A.apiKey)
  /\ A.locations = Array(Fill(Obj, MaxEntries + 1))
  /\ A.error.message = TooManyMessage

\* The lookups of the call that failed, and those that gave a record.
FailedLookups == {i \in DOMAIN A.outcomes :
                    A.outcomes[i].kind # "json" \/ A.outcomes[i].data = <<>>}
Unparsable == {i \in DOMAIN A.outcomes :
                 A.outcomes[i].kind = "malformed"
                 \/ (A.outcomes[i].kind = "json" /\ A.outcomes[i].data = <<>>)}
GoodLookups == DOMAIN A.outcomes \ FailedLookups

\* C6: once a lookup of a batch has failed the call has failed: it returns
\* nothing, the cache and the file are what they were when the call started.
C6_AllOrNothing ==
  (FailedLookups # {})
    => /\ A.pc = "done" /\ A.error # NoError
       /\ ~A.result.returned /\ A.written = "no"
       /\ _cache = A.cache0 /\ dataJson = A.durable0

\* C6 witness: one lookup of the batch gave a record, another failed.
C6_Witness ==
  /\ A.pc = "done" /\ FailedLookups # {} /\ GoodLookups # {}
  /\ A.cache0.set

\* C7: when a response of the batch cannot be parsed the call fails with 'no
\* weather data for <location>', naming a location whose response could not be
\* parsed.
C7_NoDataNamesLocation ==
  (Unparsable # {})
    => /\ A.pc = "done" /\ ~A.result.returned
       /\ \E i \in Unparsable :
            A.error.message = "no weather data for " \o toString(A.requested[i])

\* C7 witness: the number 10005 could not be resolved after Lagos was.
C7_Witness ==
  /\ A.pc = "done"
  /\ \E i \in Unparsable, j \in GoodLookups :
       /\ A.requested[i] = Num(10005) /\ A.requested[j] = Str("Lagos")
       /\ A.error.message = "no weather data for 10005"

\* The batch a call fetched, from what came back: for each requested key the
\* record of the last request with that key.
C8_Batch ==
  [k \in Keys(A.requested) |->
     LET last == CHOOSE i \in DOMAIN A.requested :
                   /\ toString(A.requested[i]) = k
                   /\ \A j \in DOMAIN A.requested :
                        toString(A.requested[j]) = k => j <= i
     IN [ob_time |-> A.outcomes[last].data[1].ob_time]]

\* C8: after a successful write of a fetched batch N, the file holds the cache
\* as it was before together with N, N's record where both have the key; the
\* in-memory cache is N; N is what the write returned.
C8_MergeAndPersist ==
  (A.written = "ok")
    => LET N == C8_Batch
           C == IF A.cache0.set THEN A.cache0.obj ELSE EmptyObj
       IN /\ dataJson.state = "written"
          /\ dataJson.content =
                {<<k, N[k]>> : k \in DOMAIN N}
                \cup {<<k, C[k]>> : k \in (DOMAIN C) \ (DOMAIN N)}
          /\ _cache = Defined(N)
          /\ A.apiData = N

\* C8 witness: the batch replaces one cached record and leaves another.
C8_Witness ==
  /\ A.written = "ok" /\ A.cache0.set
  /\ \E k \in DOMAIN A.cache0.obj \cap DOMAIN A.apiData :
       A.cache0.obj[k] # A.apiData[k]
  /\ (DOMAIN A.cache0.obj) \ (DOMAIN A.apiData) # {}

\* C9: when writeFile fails the call fails with its message, nothing is
\* returned and the in-memory cache is what it was when the call started.
C9_WriteFailure ==
  (A.written = "failed")
    => /\ A.pc = "done" /\ A.error.message = WriteMessage
       /\ ~A.result.returned
       /\ _cache = A.cache0

\* C9 witness: the write of a batch fails while the cache holds other records.
C9_Witness ==
  /\ A.written = "failed" /\ A.cache0.set
  /\ A.apiData # A.cache0.obj

\* C10: a call rejected for its key or its argument sends no request, computes
\* no partition, and leaves the cache and the file as they were.
C10_RejectionNoEffect ==
  (A.pc # "idle" /\ (Falsy(A.apiKey) \/ C5_Table(A.locations) # ""))
    => /\ A.pc = "done" /\ A.error # NoError
       /\ A.requested = <<>> /\ A.outcomes = EmptyObj
       /\ A.fromApi = <<>> /\ A.fromCache = <<>>
       /\ A.written = "no"
       /\ _cache = A.cache0 /\ dataJson = A.durable0

\* C10 witness: a bad element rejected while the cache holds records.
C10_Witness ==
  /\ A.pc = "done" /\ A.error.message = ElementMessage
  /\ A.locations = Array(<<Str("Lagos"), Obj>>)
  /\ _cache.set

\* The message of the failure a finished call met first, "" when it met none.
C11_Original ==
  IF Falsy(A.apiKey) THEN AuthMessage
  ELSE IF C5_Table(A.locations) # "" THEN C5_Table(A.locations)
  ELSE IF \E i \in FailedLookups : A.outcomes[i].kind = "neterr" THEN NetworkMessage
  ELSE IF Unparsable # {}
    THEN "no weather data for " \o toString(A.requested[CHOOSE i \in Unparsable : TRUE])
  ELSE IF A.written = "failed" THEN WriteMessage
  ELSE ""

\* C11: a call that fails at any stage (key, validation, fetch, write) rejects
\* with an error of the one type Error carrying the message of the failure, and
\* returns nothing; a call that meets no failure returns and carries no error.
C11_UniformFailure ==
  (A.pc = "done")
    => IF C11_Original # ""
         THEN A.error = [type |-> "Error", message |-> C11_Original]
              /\ ~A.result.returned
         ELSE A.error = NoError /\ A.result.returned

\* C11 witness: the validator's TypeError reaches the caller as an Error.
C11_Witness ==
  /\ A.pc = "done" /\ A.locations = NotArray
  /\ A.error = [type |-> "Error", message |-> NotArrayMessage]

\* C12: no step removes a key from the in-memory cache: once the cache holds a
\* record for a key, it holds one for that key ever after.
C12_KeysNeverRemoved ==
  [][_cache.set => /\ _cache'.set
                   /\ DOMAIN _cache.obj \subseteq DOMAIN _cache'.obj]_vars

\* How often e occurs in s.
C13_Count(s, e) == Cardinality({i \in DOMAIN s : s[i] = e})

\* s with only the elements of the set kept, in order.
C13_Restrict(s, set) == SelectSeq(s, LAMBDA e : e \in set)

\* C13: in every call that passed the guards, whatever the cache and the clock
\* (a clock that advances during the call included), each occurrence of a
\* location is in exactly one of the lists fromApi and fromCache, and each list
\* is the input restricted to its locations, order and duplicates kept.
C13_TruePartition ==
  (A.pc # "idle" /\ Guard(A.apiKey, A.locations) = NoError)
    => /\ \A e \in Range(A.locations.elems) :
            C13_Count(A.fromApi, e) + C13_Count(A.fromCache, e)
              = C13_Count(A.locations.elems, e)
       /\ Range(A.fromApi) \cap Range(A.fromCache) = {}
       /\ A.fromApi = C13_Restrict(A.locations.elems, Range(A.fromApi))
       /\ A.fromCache = C13_Restrict(A.locations.elems, Range(A.fromCache))

\* C13, the part the code keeps: no occurrence is in neither list.
C13_NeverNeither ==
  (A.pc # "idle" /\ Guard(A.apiKey, A.locations) = NoError)
    => \A e \in Range(A.locations.elems) :
         C13_Count(A.fromApi, e) + C13_Count(A.fromCache, e)
           >= C13_Count(A.locations.elems, e)

\* What C14 promises of a call that fetches nothing.
C14_NothingFetched ==
  /\ A.pc = "done"
  /\ A.requested = <<>> /\ A.written = "no"
  /\ _cache = A.cache0 /\ dataJson = A.durable0
  /\ A.result = Returned(_getWeatherByLocationsFromCache(A.cache0, A.locations.elems))

\* C14: an accepted call none of whose locations is stale (each has a cached
\* record less than an hour old, still so now) sends no request, writes nothing,
\* leaves the cache as it was and returns the cached records.
C14_NoStaleNoFetch ==
  (/\ A.pc # "idle" /\ Guard(A.apiKey, A.locations) = NoError
   /\ \A l \in Range(A.locations.elems) : IsFresh(A.cache0, l, now))
    => C14_NothingFetched

\* C14 with the stale list as the code computes it: a call whose fromApi is
\* empty fetches nothing.
C14_EmptyFromApi ==
  (/\ A.pc # "idle" /\ Guard(A.apiKey, A.locations) = NoError
   /\ A.fromApi = <<>>)
    => C14_NothingFetched

\* C15: the first accepted call of a process fetches every requested location
\* and reads none from the cache, whatever data.json holds; and in every
\* accepted call the in-memory cache and the clock alone decide what is fetched:
\* a location the cache gives as expired even now has been requested, one the
\* cache never gave as expired has not.
C15_NoReadBack ==
  (A.pc # "idle" /\ Guard(A.apiKey, A.locations) = NoError)
    => /\ A.first => /\ ~A.cache0.set
                     /\ A.requested = A.locations.elems
                     /\ A.fromCache = <<>>
       /\ \A l \in Range(A.locations.elems) :
            /\ _locationCacheExpired(A.cache0, l, now) => l \in Range(A.requested)
            /\ ~_locationCacheExpired(A.cache0, l, 0) => l \notin Range(A.requested)

\* C15 witness: the first call asks for Lagos an hour after the record that
\* data.json holds for Lagos was observed, and fetches it.
C15_Witness ==
  /\ A.pc = "fetching" /\ A.first
  /\ A.durable0 = Written(Stringify("Lagos" :> [ob_time |-> 0]))
  /\ now >= Hour
  /\ A.locations = Array(<<Str("Lagos")>>)
  /\ A.requested = <<Str("Lagos")>>

\* The keys that are both in the fetched batch and among the records the call
\* reads from the cache at line 75.
C16_Both ==
  DOMAIN A.apiData \cap Keys(A.fromCache) \cap DOMAIN SpreadCache(_cache)

\* C16: in the mapping a call returns, a key that is both in the fetched batch
\* and among the records read from the cache carries the record just fetched.
C16_FetchedWins ==
  (A.pc = "done" /\ A.result.returned)
    => \A k \in C16_Both :
         /\ k \in DOMAIN A.result.value
         /\ A.result.value[k] = C8_Batch[k]

\* C16 witness: a location was put in both lists, the cache held an older
\* record of it when the call began, and the call returned.
C16_Witness ==
  /\ A.pc = "done" /\ A.result.returned
  /\ \E k \in C16_Both :
       /\ k \in DOMAIN SpreadCache(A.cache0)
       /\ A.cache0.obj[k] # C8_Batch[k]

\* What a call that fetched and wrote comes to, from what it started with and
\* what came back for each request; the order of settling has no part in it.
C17_Final ==
  LET N == C8_Batch
  IN [result |-> Returned(Spread(N, _getWeatherByLocationsFromCache(Defined(N),
                                                                    A.fromCache))),
      cache |-> Defined(N),
      blob |-> Written(Stringify(Spread(SpreadCache(A.cache0), N)))]

\* C17: the mapping a call returns, the cache and the file it leaves are fixed
\* by the cache it started with, its two lists and the response to each request,
\* in whatever order the requests settled; and the batch is normalised only when
\* every request has settled.
C17_OrderIndependent ==
  /\ (A.pc = "done" /\ A.written = "ok")
       => [result |-> A.result, cache |-> _cache, blob |-> dataJson] = C17_Final
  /\ (A.pc = "fetching") => (A.apiData = EmptyObj /\ A.content = {})
  /\ (A.apiData # EmptyObj)
       => (DOMAIN A.settled = 1..Len(A.requested) /\ A.apiData = C8_Batch)

\* C17 witness: two requests for one key, answered with different records, the
\* second settling first, and the batch normalised.
C17_Witness ==
  /\ A.pc = "stat" /\ A.apiData # EmptyObj
  /\ A.order = <<2, 1>>
  /\ toString(A.requested[1]) = toString(A.requested[2])
  /\ A.outcomes[1] # A.outcomes[2]

\* The two spellings of the postal code.
C18_Both == {Num(10005), Alias}

\* C18 as stated: a call that returns and whose argument holds both the number
\* 10005 and the string "10005" returns an entry for each.
C18_DistinctKeys ==
  (A.pc = "done" /\ A.result.returned /\ C18_Both \subseteq Range(A.locations.elems))
    => Cardinality(DOMAIN A.result.value) >= 2

\* C18 amended: the number 10005 and the string "10005" are one cache key,
\* "10005".  A call that returns and was asked for just the two of them returns
\* the one entry "10005"; on the cache a successful write leaves, the freshness
\* test and the cache read answer alike for the two; and a call for one
\* spelling that is served from the cache returns the record cached under the
\* key.
C18_SameKey ==
  /\ (A.pc = "done" /\ A.result.returned /\ Range(A.locations.elems) = C18_Both)
       => DOMAIN A.result.value = {"10005"}
  /\ (A.pc = "done" /\ A.written = "ok")
       => /\ \A t \in 0..MaxTime :
               _locationCacheExpired(_cache, Num(10005), t)
                 = _locationCacheExpired(_cache, Alias, t)
          /\ _getWeatherByLocationsFromCache(_cache, <<Num(10005)>>)
               = _getWeatherByLocationsFromCache(_cache, <<Alias>>)
  /\ \A l \in C18_Both :
       (/\ A.pc = "done" /\ A.result.returned
        /\ A.locations = Array(<<l>>) /\ A.requested = <<>>)
         => /\ "10005" \in DOMAIN A.cache0.obj
            /\ A.result.value = ("10005" :> A.cache0.obj["10005"])

\* C18 witness: both spellings fetched by one call, which returned one entry.
C18_Witness ==
  /\ A.pc = "done" /\ A.result.returned
  /\ A.locations = Array(<<Num(10005), Alias>>)
  /\ A.requested = <<Num(10005), Alias>>
  /\ DOMAIN A.result.value = {"10005"}
  /\ A.result.value["10005"].ob_time = A.outcomes[2].data[1].ob_time

\* ------------------------------------------------- overlapping callers
\* Two callers that make one call each and do not wait for one another: each
\* step of a call is taken between the steps of the other, as the event loop
\* may schedule them.  Each call asks for one location.
ConcInputs == {Array(<<l>>) : l \in Locs}

NextConc ==
  \/ Tick
  \/ \E c \in CallIds, locations \in ConcInputs : GetWeatherData(c, locations)
  \/ \E c \in CallIds, i \in 1..MaxEntries, outcome \in Outcomes(now) :
       Response(c, i, outcome)
  \/ \E c \in CallIds, err \in BOOLEAN : StatDone(c, err)
  \/ \E c \in CallIds : WriteDone(c)
  \/ \E c \in CallIds, partial \in BOOLEAN : WriteFailed(c, partial)

SpecConc == Init /\ [][NextConc]_vars

\* The call of the second caller of SpecConc.
B == call["b"]

\* C19: when the calls of the two callers overlap (each began before the other
\* had written), fetched disjoint sets of locations and both succeeded, the
\* file holds the records both fetched, and every key of the in-memory cache
\* is a key of the file.
C19_NoLostUpdate ==
  (/\ A.pc = "done" /\ A.written = "ok"
   /\ B.pc = "done" /\ B.written = "ok"
   /\ ~A.cache0.set /\ ~B.cache0.set
   /\ Keys(A.requested) \cap Keys(B.requested) = {})
    => /\ dataJson.state = "written"
       /\ Stringify(A.apiData) \cup Stringify(B.apiData) \subseteq dataJson.content
       /\ DOMAIN SpreadCache(_cache) \subseteq {m[1] : m \in dataJson.content}

\* The keys of the text data.json holds.
C20_FileKeys(file) == {m[1] : m \in file.content}

\* C20: with one caller at a time, a successful write by this process never
\* drops a key that the file held after an earlier successful write by this
\* process.
C20_DurableRetention ==
  [][(/\ _cache.set
      /\ dataJson.state = "written" /\ dataJson'.state = "written")
       => C20_FileKeys(dataJson) \subseteq C20_FileKeys(dataJson')]_vars

====
